---- MODULE Spec2Model ----
(***************************************************************************)
(* Model of Sources/CLibVLC/shim.c: the log bridge between libVLC's        *)
(* variadic log callback and the fixed-argument callback of the host.      *)
(*                                                                         *)
(*   swiftvlc_log_set    malloc a context, store callback and data,        *)
(*                       libvlc_log_set(instance, swiftvlc_log_bridge, ctx)*)
(*   swiftvlc_log_bridge vsnprintf into char buf[1024], read the module    *)
(*                       name, context->callback(context->data, ...)       *)
(*   swiftvlc_log_unset  libvlc_log_unset(instance), free(context)         *)
(*                                                                         *)
(* Host threads call set/unset, library threads emit log events.  Each     *)
(* action is one statement (or one run of statements without a shared      *)
(* access) of the C code.                                                  *)
(*                                                                         *)
(* malloc hands out every address once, so an address names an allocation. *)
(* The hosts give unset only handles that set returned, each one once.     *)
(* libVLC is not part of the shim: whether its set/unset wait for the log  *)
(* calls in flight is fixed per behaviour by libSync, either way.          *)
(* Undefined behaviour (a store through NULL, a read of a freed block) is  *)
(* a choice between the process dying and the access going through.        *)
(***************************************************************************)
EXTENDS Integers, Sequences, FiniteSets, TLC

VARIABLES
    heap,       \* malloc'ed swiftvlc_log_context blocks, by address
    nullpage,   \* what a store through a NULL context left behind (if it did not trap)
    reg,        \* per instance: the handler libvlc holds (installed, data)
    host,       \* per host thread: position in swiftvlc_log_set / _unset and its locals
    handles,    \* <<instance, context>> pairs returned by set and not yet given to unset
    logger,     \* per library thread: position in swiftvlc_log_bridge and its locals
    bufs,       \* storage of the bridge's char buf[1024], per storage slot
    calls,      \* per library thread: callback invocations of its current bridge call
    crashed,    \* the process died (trap on an invalid access)
    badAccess,  \* who has accessed a freed block so far
    nfree,      \* per address: how often free() released it
    libSync,    \* whether libvlc's set/unset wait for log calls in flight
    nfailed,    \* how often malloc has returned NULL
    given,      \* history: per address, the arguments of the set call that allocated it
    superseded  \* history: contexts whose registration a later set call replaced

vars == <<heap, nullpage, reg, host, handles, logger, bufs, calls, crashed,
          badAccess, nfree, libSync, nfailed, given, superseded>>

----------------------------------------------------------------------------
(* Bounds of the model *)

\* number of context blocks malloc can hand out
MaxCtx == 2
\* number of times malloc returns NULL
MaxAllocFailures == 1
\* number of host threads calling set/unset
NumHosts == 1
\* number of library threads emitting log events
NumLoggers == 2

(* Program constants *)

\* sizeof(buf) in swiftvlc_log_bridge
BufSize == 1024
\* the null pointer
NULL == 0

Addrs == 1..MaxCtx
Hosts == 1..NumHosts
Loggers == 1..NumLoggers
Instances == {"vlc"}

\* a null userData argument
UdNull == "ud:null"
\* content of a field or local that was never assigned
Uninit == "uninit"
\* const char *module = NULL
NoModule == "module:null"
\* the string terminator
NUL == "NUL"
\* what a read past the initialised part of a buffer yields
Garbage == "garbage"

----------------------------------------------------------------------------
(* Formatting: what vsnprintf(buf, sizeof(buf), fmt, args) computes.        *)
(* A string is a sequence of one-character strings; a format is such a     *)
(* string with the directives %s, %d and %%; args holds one value per      *)
(* consuming directive (a string for %s, an integer for %d).               *)

Min(a, b) == IF a < b THEN a ELSE b

Rep(c, n) == [i \in 1..n |-> c]

DigitChar(d) == <<"0", "1", "2", "3", "4", "5", "6", "7", "8", "9">>[d + 1]

RECURSIVE Digits(_)
Digits(n) == IF n < 10 THEN <<DigitChar(n)>>
             ELSE Digits(n \div 10) \o <<DigitChar(n % 10)>>

\* %d
Itoa(n) == IF n < 0 THEN <<"-">> \o Digits(-n) ELSE Digits(n)

\* The complete output of the format from position i on, with args from k on.
RECURSIVE Expand(_, _, _, _)
Expand(fmt, i, args, k) ==
    IF i > Len(fmt) THEN <<>>
    ELSE IF fmt[i] # "%" THEN <<fmt[i]>> \o Expand(fmt, i + 1, args, k)
    ELSE IF fmt[i + 1] = "%" THEN <<"%">> \o Expand(fmt, i + 2, args, k)
    ELSE IF fmt[i + 1] = "s" THEN args[k] \o Expand(fmt, i + 2, args, k + 1)
    ELSE Itoa(args[k]) \o Expand(fmt, i + 2, args, k + 1)

\* A formatter with no limit on its output (vsprintf into a buffer that is
\* large enough): the bytes of the output, then the terminator.
Vsprintf(fmt, args) == Expand(fmt, 1, args, 1) \o <<NUL>>

\* vsnprintf(s, n, fmt, args): the bytes it stores from s[0] on.  At most
\* n - 1 bytes of the output are stored, then the terminator; nothing is
\* stored when n = 0.
Vsnprintf(n, fmt, args) ==
    LET out == Expand(fmt, 1, args, 1)
    IN  IF n = 0 THEN <<>>
        ELSE SubSeq(out, 1, Min(Len(out), n - 1)) \o <<NUL>>

\* Storing the bytes w from the start of an array whose initialised prefix
\* is buf: the cells behind w keep what they held.
Store(buf, w) == w \o SubSeq(buf, Len(w) + 1, Len(buf))

\* Reading an array as a C string: the bytes before the first terminator.
\* With no terminator in the initialised prefix the read runs on into
\* whatever follows.
CStr(buf) ==
    LET nuls == {i \in 1..Len(buf) : buf[i] = NUL}
    IN  IF nuls = {} THEN buf \o <<Garbage>>
        ELSE SubSeq(buf, 1, (CHOOSE i \in nuls : \A j \in nuls : i <= j) - 1)

\* The log events libvlc emits: severity, the module of the log record
\* (NoModule when the record names none), format and arguments.
Events == <<
    [level |-> 0, module |-> "core",    fmt |-> <<"h", "i">>, args |-> <<>>],
    [level |-> 4, module |-> NoModule,
     fmt |-> <<"%", "s", ":", "%", "d", "%", "%">>, args |-> <<<<"a", "b">>, -42>>],
    [level |-> 2, module |-> "avcodec", fmt |-> <<"%", "s">>,
     args |-> <<Rep("x", BufSize - 1)>>],
    [level |-> 3, module |-> "core",    fmt |-> <<"y", "%", "s">>,
     args |-> <<Rep("x", BufSize - 1)>>],
    [level |-> 4, module |-> "http",    fmt |-> <<"%", "s", "%", "d">>,
     args |-> <<Rep("z", BufSize + 70), 1207>>]
>>
EventIds == 1..Len(Events)

----------------------------------------------------------------------------
(* State *)

\* struct swiftvlc_log_context, as malloc returns it
FreshContext == [state |-> "live", callback |-> Uninit, data |-> Uninit]
NoBlock == [state |-> "unalloc", callback |-> Uninit, data |-> Uninit]

NoHandler == [installed |-> FALSE, data |-> NULL]
\* what libvlc_log_set(instance, swiftvlc_log_bridge, context) leaves in libvlc
Handler(context) == [installed |-> TRUE, data |-> context]

IdleHost == [pc |-> "idle", instance |-> "vlc", callback |-> Uninit,
             data |-> Uninit, context |-> NULL]
IdleLogger == [pc |-> "idle", instance |-> "vlc", ev |-> 1, context |-> NULL,
               module |-> Uninit]

\* Faulty variant: static char buf[1024]: one buffer for every bridge call
BufOfShared(t) == 1
\* char buf[1024] has automatic storage: every bridge call has its own
BufOf(t) == t
\* Faulty variant: vsnprintf(buf, sizeof(buf) + 1, ...)
SizeofBufPlusOne == BufSize + 1
\* Faulty variant: vsnprintf(buf, sizeof(buf) - 1, ...)
SizeofBufMinusOne == BufSize - 1
\* the size handed to vsnprintf: sizeof(buf)
SizeofBuf == BufSize
\* Faulty variant: const char *module; without an initializer
ModuleInitMissing == Uninit
\* const char *module = NULL;
ModuleInit == NoModule

Init ==
    /\ heap = [a \in Addrs |-> NoBlock]
    /\ nullpage = [mapped |-> FALSE, callback |-> Uninit, data |-> Uninit]
    /\ reg = [i \in Instances |-> NoHandler]
    /\ host = [h \in Hosts |-> IdleHost]
    /\ handles = {}
    /\ logger = [t \in Loggers |-> IdleLogger]
    /\ bufs = [t \in Loggers |-> <<>>]
    /\ calls = [t \in Loggers |-> <<>>]
    /\ crashed = FALSE
    /\ badAccess = {}
    /\ nfree = [a \in Addrs |-> 0]
    /\ libSync \in BOOLEAN
    /\ nfailed = 0
    /\ given = [a \in Addrs |-> [callback |-> Uninit, data |-> Uninit]]
    /\ superseded = {}

FreshAddrs == {a \in Addrs : heap[a].state = "unalloc"}

\* the library threads inside a log call of the instance
InFlight(inst) == {t \in Loggers : logger[t].pc # "idle" /\ logger[t].instance = inst}

\* libvlc_log_set / libvlc_log_unset of a library that waits for the log
\* calls in flight can only complete when there is none
LibQuiet(inst) == libSync => InFlight(inst) = {}

----------------------------------------------------------------------------
(* swiftvlc_log_set, shim.c:43-51 *)

\* Faulty variant: libvlc_log_set(instance, swiftvlc_log_bridge, context)
\* called right after malloc, before the two stores
SetMallocRegistersFirst(h, inst, cb, ud) ==
    /\ ~crashed
    /\ host[h].pc = "idle"
    /\ FreshAddrs # {}
    /\ LibQuiet(inst)
    /\ LET a == CHOOSE x \in FreshAddrs : \A y \in FreshAddrs : x <= y
       IN  /\ heap' = [heap EXCEPT ![a] = FreshContext]
           /\ given' = [given EXCEPT ![a] = [callback |-> cb, data |-> ud]]
           /\ reg' = [reg EXCEPT ![inst] = [installed |-> TRUE, data |-> a]]
           /\ host' = [host EXCEPT ![h] = [pc |-> "set_callback", instance |-> inst,
                                           callback |-> cb, data |-> ud, context |-> a]]
    /\ UNCHANGED <<nullpage, handles, logger, bufs, calls, crashed, badAccess,
                   nfree, libSync, nfailed, superseded>>

\* line 46, malloc returns a block
SetMalloc(h, inst, cb, ud) ==
    /\ ~crashed
    /\ host[h].pc = "idle"
    /\ FreshAddrs # {}
    /\ LET a == CHOOSE x \in FreshAddrs : \A y \in FreshAddrs : x <= y
       IN  /\ heap' = [heap EXCEPT ![a] = FreshContext]
           /\ given' = [given EXCEPT ![a] = [callback |-> cb, data |-> ud]]
           /\ host' = [host EXCEPT ![h] = [pc |-> "set_callback", instance |-> inst,
                                           callback |-> cb, data |-> ud, context |-> a]]
    /\ UNCHANGED <<nullpage, reg, handles, logger, bufs, calls, crashed, badAccess,
                   nfree, libSync, nfailed, superseded>>

\* line 46, malloc returns NULL; the code does not test it
SetMallocFails(h, inst, cb, ud) ==
    /\ ~crashed
    /\ host[h].pc = "idle"
    /\ nfailed < MaxAllocFailures
    /\ nfailed' = nfailed + 1
    /\ host' = [host EXCEPT ![h] = [pc |-> "set_callback", instance |-> inst,
                                    callback |-> cb, data |-> ud, context |-> NULL]]
    /\ UNCHANGED <<heap, nullpage, reg, handles, logger, bufs, calls, crashed,
                   badAccess, nfree, libSync, given, superseded>>

\* line 47, context->callback = callback
SetStoreCallback(h) ==
    /\ ~crashed
    /\ host[h].pc = "set_callback"
    /\ host[h].context # NULL
    /\ heap' = [heap EXCEPT ![host[h].context].callback = host[h].callback]
    /\ host' = [host EXCEPT ![h].pc = "set_data"]
    /\ UNCHANGED <<nullpage, reg, handles, logger, bufs, calls, crashed, badAccess,
                   nfree, libSync, nfailed, given, superseded>>

\* line 47 with context = NULL: undefined behaviour.  The store traps ...
SetStoreNullTraps(h) ==
    /\ ~crashed
    /\ host[h].pc = "set_callback"
    /\ host[h].context = NULL
    /\ ~nullpage.mapped
    /\ crashed' = TRUE
    /\ UNCHANGED <<heap, nullpage, reg, host, handles, logger, bufs, calls,
                   badAccess, nfree, libSync, nfailed, given, superseded>>

\* ... or address 0 is mapped and the store goes through
SetStoreNullProceeds(h) ==
    /\ ~crashed
    /\ host[h].pc = "set_callback"
    /\ host[h].context = NULL
    /\ nullpage' = [nullpage EXCEPT !.mapped = TRUE, !.callback = host[h].callback]
    /\ host' = [host EXCEPT ![h].pc = "set_data"]
    /\ UNCHANGED <<heap, reg, handles, logger, bufs, calls, crashed, badAccess,
                   nfree, libSync, nfailed, given, superseded>>

\* line 48, context->data = data
SetStoreData(h) ==
    /\ ~crashed
    /\ host[h].pc = "set_data"
    /\ IF host[h].context = NULL
       THEN /\ nullpage' = [nullpage EXCEPT !.data = host[h].data]
            /\ UNCHANGED heap
       ELSE /\ heap' = [heap EXCEPT ![host[h].context].data = host[h].data]
            /\ UNCHANGED nullpage
    /\ host' = [host EXCEPT ![h].pc = "set_register"]
    /\ UNCHANGED <<reg, handles, logger, bufs, calls, crashed, badAccess, nfree,
                   libSync, nfailed, given, superseded>>

\* the context whose registration libvlc_log_set(inst, ..., c) overwrites
Replaced(inst, c) ==
    IF reg[inst].installed /\ reg[inst].data \notin {NULL, c}
    THEN {reg[inst].data} ELSE {}

\* Faulty variant: set releases the context whose registration it replaces
SetRegisterFreesPrevious(h) ==
    /\ ~crashed
    /\ host[h].pc = "set_register"
    /\ LibQuiet(host[h].instance)
    /\ reg' = [reg EXCEPT ![host[h].instance] = Handler(host[h].context)]
    /\ handles' = handles \cup {<<host[h].instance, host[h].context>>}
    /\ superseded' = superseded \cup Replaced(host[h].instance, host[h].context)
    /\ heap' = [a \in Addrs |->
                   IF a \in Replaced(host[h].instance, host[h].context)
                   THEN [heap[a] EXCEPT !.state = "freed"] ELSE heap[a]]
    /\ host' = [host EXCEPT ![h] = IdleHost]
    /\ UNCHANGED <<nullpage, logger, bufs, calls, crashed, badAccess, nfree,
                   libSync, nfailed, given>>

\* lines 49-50, libvlc_log_set(instance, swiftvlc_log_bridge, context); return context
SetRegister(h) ==
    /\ ~crashed
    /\ host[h].pc = "set_register"
    /\ LibQuiet(host[h].instance)
    /\ reg' = [reg EXCEPT ![host[h].instance] = Handler(host[h].context)]
    /\ handles' = handles \cup {<<host[h].instance, host[h].context>>}
    /\ superseded' = superseded \cup Replaced(host[h].instance, host[h].context)
    /\ host' = [host EXCEPT ![h] = IdleHost]
    /\ UNCHANGED <<heap, nullpage, logger, bufs, calls, crashed, badAccess, nfree,
                   libSync, nfailed, given>>

----------------------------------------------------------------------------
(* swiftvlc_log_unset, shim.c:54-57 *)

\* Faulty variant: unset without the call of libvlc_log_unset
UnsetSkipsUnregister(h, hd) ==
    /\ ~crashed
    /\ host[h].pc = "idle"
    /\ hd \in handles
    /\ handles' = handles \ {hd}
    /\ host' = [host EXCEPT ![h] = [IdleHost EXCEPT !.pc = "unset_free",
                                    !.instance = hd[1], !.context = hd[2]]]
    /\ UNCHANGED <<heap, nullpage, reg, logger, bufs, calls, crashed, badAccess,
                   nfree, libSync, nfailed, given, superseded>>

\* Faulty variant: unset leaves the handler of another context in place
UnsetUnregistersOwn(h, hd) ==
    /\ ~crashed
    /\ host[h].pc = "idle"
    /\ hd \in handles
    /\ LibQuiet(hd[1])
    /\ reg' = IF reg[hd[1]] = Handler(hd[2])
              THEN [reg EXCEPT ![hd[1]] = NoHandler] ELSE reg
    /\ handles' = handles \ {hd}
    /\ host' = [host EXCEPT ![h] = [IdleHost EXCEPT !.pc = "unset_free",
                                    !.instance = hd[1], !.context = hd[2]]]
    /\ UNCHANGED <<heap, nullpage, logger, bufs, calls, crashed, badAccess, nfree,
                   libSync, nfailed, given, superseded>>

\* Faulty variant: the two statements of unset in the other order; this is
\* free(context), after which libvlc_log_unset(instance) has yet to run
UnsetFreesFirst(h, hd) ==
    /\ ~crashed
    /\ host[h].pc = "idle"
    /\ hd \in handles
    /\ heap' = [a \in Addrs |-> IF a = hd[2]
                                THEN [heap[a] EXCEPT !.state = "freed"] ELSE heap[a]]
    /\ nfree' = [a \in Addrs |-> IF a = hd[2] THEN Min(nfree[a] + 1, 2) ELSE nfree[a]]
    /\ handles' = handles \ {hd}
    /\ host' = [host EXCEPT ![h] = [IdleHost EXCEPT !.pc = "unset_unregister",
                                    !.instance = hd[1], !.context = hd[2]]]
    /\ UNCHANGED <<nullpage, reg, logger, bufs, calls, crashed, badAccess,
                   libSync, nfailed, given, superseded>>

\* line 55, libvlc_log_unset(instance), called with a handle set returned
UnsetUnregister(h, hd) ==
    /\ ~crashed
    /\ host[h].pc = "idle"
    /\ hd \in handles
    /\ LibQuiet(hd[1])
    /\ reg' = [reg EXCEPT ![hd[1]] = NoHandler]
    /\ handles' = handles \ {hd}
    /\ host' = [host EXCEPT ![h] = [IdleHost EXCEPT !.pc = "unset_free",
                                    !.instance = hd[1], !.context = hd[2]]]
    /\ UNCHANGED <<heap, nullpage, logger, bufs, calls, crashed, badAccess, nfree,
                   libSync, nfailed, given, superseded>>

\* Faulty variant: unset without the call of free
UnsetSkipsFree(h) ==
    /\ ~crashed
    /\ host[h].pc = "unset_free"
    /\ host' = [host EXCEPT ![h] = IdleHost]
    /\ UNCHANGED <<heap, nullpage, reg, handles, logger, bufs, calls, crashed,
                   badAccess, nfree, libSync, nfailed, given, superseded>>

\* Faulty variant: unset holds the free back while a log call is in the bridge
UnsetFreeWaits(h) ==
    /\ ~crashed
    /\ host[h].pc = "unset_free"
    /\ InFlight(host[h].instance) = {}
    /\ LET c == host[h].context
       IN  IF c = NULL
           THEN UNCHANGED <<heap, nfree, badAccess>>
           ELSE /\ heap' = [heap EXCEPT ![c].state = "freed"]
                /\ nfree' = [nfree EXCEPT ![c] = Min(@ + 1, 2)]
                /\ badAccess' = IF heap[c].state = "freed"
                                THEN badAccess \cup {"free"} ELSE badAccess
    /\ host' = [host EXCEPT ![h] = IdleHost]
    /\ UNCHANGED <<nullpage, reg, handles, logger, bufs, calls, crashed, libSync,
                   nfailed, given, superseded>>

\* Faulty variant: unset recognises a context that is already freed and
\* returns without freeing it again
UnsetFreeGuarded(h) ==
    /\ ~crashed
    /\ host[h].pc = "unset_free"
    /\ LET c == host[h].context
       IN  IF c = NULL \/ heap[c].state = "freed"
           THEN UNCHANGED <<heap, nfree, badAccess>>
           ELSE /\ heap' = [heap EXCEPT ![c].state = "freed"]
                /\ nfree' = [nfree EXCEPT ![c] = Min(@ + 1, 2)]
                /\ UNCHANGED badAccess
    /\ host' = [host EXCEPT ![h] = IdleHost]
    /\ UNCHANGED <<nullpage, reg, handles, logger, bufs, calls, crashed, libSync,
                   nfailed, given, superseded>>

\* line 56, free(context); free(NULL) does nothing
UnsetFree(h) ==
    /\ ~crashed
    /\ host[h].pc = "unset_free"
    /\ LET c == host[h].context
       IN  IF c = NULL
           THEN UNCHANGED <<heap, nfree, badAccess>>
           ELSE /\ heap' = [heap EXCEPT ![c].state = "freed"]
                /\ nfree' = [nfree EXCEPT ![c] = Min(@ + 1, 2)]
                /\ badAccess' = IF heap[c].state = "freed"
                                THEN badAccess \cup {"free"} ELSE badAccess
    /\ host' = [host EXCEPT ![h] = IdleHost]
    /\ UNCHANGED <<nullpage, reg, handles, logger, bufs, calls, crashed, libSync,
                   nfailed, given, superseded>>

----------------------------------------------------------------------------
(* libvlc emitting a log event, and swiftvlc_log_bridge, shim.c:23-39 *)

\* libvlc calls the installed handler with its data pointer: the bridge is
\* entered with data = the registered context (line 26)
LogEmit(t, inst, e) ==
    /\ ~crashed
    /\ logger[t].pc = "idle"
    /\ reg[inst].installed
    /\ logger' = [logger EXCEPT ![t] = [pc |-> "br_format", instance |-> inst,
                                        ev |-> e, context |-> reg[inst].data,
                                        module |-> Uninit]]
    /\ UNCHANGED <<heap, nullpage, reg, host, handles, bufs, calls, crashed,
                   badAccess, nfree, libSync, nfailed, given, superseded>>

\* lines 29-36: char buf[1024]; vsnprintf(buf, sizeof(buf), fmt, args);
\* module = NULL; libvlc_log_get_context(ctx, &module, &header, &line).
\* None of it touches memory another thread can reach.  For a record without
\* a module libvlc stores a null pointer or stores nothing.
BridgeFormat(t) ==
    /\ ~crashed
    /\ logger[t].pc = "br_format"
    /\ LET e == Events[logger[t].ev]
       IN  /\ bufs' = [bufs EXCEPT ![BufOf(t)] =
                           Store(@, Vsnprintf(SizeofBuf, e.fmt, e.args))]
           /\ \E stores \in (IF e.module = NoModule THEN BOOLEAN ELSE {TRUE}) :
                  logger' = [logger EXCEPT ![t].pc = "br_invoke",
                                 ![t].module = IF stores THEN e.module ELSE ModuleInit]
    /\ UNCHANGED <<heap, nullpage, reg, host, handles, calls, crashed, badAccess,
                   nfree, libSync, nfailed, given, superseded>>

\* the block context points to, as a read finds it
Block(c) == IF c = NULL THEN nullpage ELSE heap[c]
Readable(c) == IF c = NULL THEN nullpage.mapped ELSE heap[c].state = "live"
Freed(c) == c # NULL /\ heap[c].state = "freed"

\* Faulty variant: context->callback(data, ...): the bridge's own data argument,
\* the context, is passed on instead of context->data
InvocationPassesContext(t, blk) ==
    [callback |-> blk.callback, data |-> "ud:context",
     level |-> Events[logger[t].ev].level, module |-> logger[t].module,
     message |-> CStr(bufs[BufOf(t)])]

\* the callback invocation of line 38, as the host sees it
Invocation(t, blk) ==
    [callback |-> blk.callback, data |-> blk.data,
     level |-> Events[logger[t].ev].level, module |-> logger[t].module,
     message |-> CStr(bufs[BufOf(t)])]

\* Faulty variant: the bridge formats and returns without calling the callback
BridgeInvokeSkipsCall(t) ==
    /\ ~crashed
    /\ logger[t].pc = "br_invoke"
    /\ logger' = [logger EXCEPT ![t].pc = "br_return"]
    /\ UNCHANGED <<heap, nullpage, reg, host, handles, bufs, calls, crashed,
                   badAccess, nfree, libSync, nfailed, given, superseded>>

\* Faulty variant: line 38 executed twice
BridgeInvokeTwice(t) ==
    /\ ~crashed
    /\ logger[t].pc = "br_invoke"
    /\ Readable(logger[t].context)
    /\ calls' = [calls EXCEPT ![t] = Append(Append(@, Invocation(t, Block(logger[t].context))),
                                            Invocation(t, Block(logger[t].context)))]
    /\ logger' = [logger EXCEPT ![t].pc = "br_return"]
    /\ UNCHANGED <<heap, nullpage, reg, host, handles, bufs, crashed, badAccess,
                   nfree, libSync, nfailed, given, superseded>>

\* line 38, context->callback(context->data, level, module, buf)
BridgeInvoke(t) ==
    /\ ~crashed
    /\ logger[t].pc = "br_invoke"
    /\ Readable(logger[t].context)
    /\ calls' = [calls EXCEPT ![t] = Append(@, Invocation(t, Block(logger[t].context)))]
    /\ logger' = [logger EXCEPT ![t].pc = "br_return"]
    /\ UNCHANGED <<heap, nullpage, reg, host, handles, bufs, crashed, badAccess,
                   nfree, libSync, nfailed, given, superseded>>

\* line 38 on a context that free() has released: undefined behaviour.
\* The read finds what the block held ...
BridgeInvokeFreedStale(t) ==
    /\ ~crashed
    /\ logger[t].pc = "br_invoke"
    /\ Freed(logger[t].context)
    /\ badAccess' = badAccess \cup {"bridge"}
    /\ calls' = [calls EXCEPT ![t] = Append(@, Invocation(t, Block(logger[t].context)))]
    /\ logger' = [logger EXCEPT ![t].pc = "br_return"]
    /\ UNCHANGED <<heap, nullpage, reg, host, handles, bufs, crashed, nfree, libSync,
                   nfailed, given, superseded>>

\* ... or the process dies (the read traps, or the call goes through a
\* pointer the allocator has overwritten)
BridgeInvokeFreedTraps(t) ==
    /\ ~crashed
    /\ logger[t].pc = "br_invoke"
    /\ Freed(logger[t].context)
    /\ badAccess' = badAccess \cup {"bridge"}
    /\ crashed' = TRUE
    /\ UNCHANGED <<heap, nullpage, reg, host, handles, logger, bufs, calls, nfree,
                   libSync, nfailed, given, superseded>>

\* Faulty variant: the bridge releases the context once it has used it
BridgeReturnFreesContext(t) ==
    /\ ~crashed
    /\ logger[t].pc = "br_return"
    /\ logger' = [logger EXCEPT ![t] = IdleLogger]
    /\ bufs' = [bufs EXCEPT ![BufOf(t)] = <<>>]
    /\ calls' = [calls EXCEPT ![t] = <<>>]
    /\ heap' = [a \in Addrs |-> IF a = logger[t].context
                                THEN [heap[a] EXCEPT !.state = "freed"] ELSE heap[a]]
    /\ UNCHANGED <<nullpage, reg, host, handles, crashed, badAccess, nfree,
                   libSync, nfailed, given, superseded>>

\* line 39, the bridge returns to libvlc: buf ceases to exist
BridgeReturn(t) ==
    /\ ~crashed
    /\ logger[t].pc = "br_return"
    /\ logger' = [logger EXCEPT ![t] = IdleLogger]
    /\ bufs' = [bufs EXCEPT ![BufOf(t)] = <<>>]
    /\ calls' = [calls EXCEPT ![t] = <<>>]
    /\ UNCHANGED <<heap, nullpage, reg, host, handles, crashed, badAccess, nfree,
                   libSync, nfailed, given, superseded>>

----------------------------------------------------------------------------
(* swiftvlc_log_unset, shim.c:54-57, called with a handle a second time *)

\* the handles whose context an earlier unset call has released
StaleHandles == {hd \in Instances \X Addrs : Freed(hd[2])}

\* line 55 again, in a call that passes a handle unset has had before:
\* nothing in unset looks at the handle before it is freed
UnsetUnregisterStale(h, hd) ==
    /\ ~crashed
    /\ host[h].pc = "idle"
    /\ hd \in StaleHandles
    /\ LibQuiet(hd[1])
    /\ reg' = [reg EXCEPT ![hd[1]] = NoHandler]
    /\ host' = [host EXCEPT ![h] = [IdleHost EXCEPT !.pc = "unset_free",
                                    !.instance = hd[1], !.context = hd[2]]]
    /\ UNCHANGED <<heap, nullpage, handles, logger, bufs, calls, crashed, badAccess,
                   nfree, libSync, nfailed, given, superseded>>

\* line 56 on a context that is already freed: undefined behaviour. UnsetFree
\* is the outcome where the allocator takes the block a second time; here the
\* allocator notices and aborts the process
UnsetFreeAborts(h) ==
    /\ ~crashed
    /\ host[h].pc = "unset_free"
    /\ Freed(host[h].context)
    /\ badAccess' = badAccess \cup {"free"}
    /\ crashed' = TRUE
    /\ UNCHANGED <<heap, nullpage, reg, host, handles, logger, bufs, calls, nfree,
                   libSync, nfailed, given, superseded>>

----------------------------------------------------------------------------
(* Specifications *)

\* the arguments the host passes to swiftvlc_log_set
InstallArgs == {<<"cbA", UdNull>>, <<"cbB", "ud:1">>}

\* the events of the runs that exercise set and unset: the short ones
ShortEvents == {1, 2}

InstallStep(h) ==
    \/ \E inst \in Instances, a \in InstallArgs : SetMalloc(h, inst, a[1], a[2])
    \/ SetStoreCallback(h)
    \/ SetStoreData(h)
    \/ SetRegister(h)

UninstallStep(h) ==
    \/ \E hd \in handles : UnsetUnregister(h, hd)
    \/ UnsetFree(h)

\* swiftvlc_log_set when malloc returns NULL
AllocFailureStep(h) ==
    \/ \E inst \in Instances, a \in InstallArgs : SetMallocFails(h, inst, a[1], a[2])
    \/ SetStoreNullTraps(h)
    \/ SetStoreNullProceeds(h)

BridgeStep(t) ==
    \/ BridgeFormat(t)
    \/ BridgeInvoke(t)
    \/ BridgeInvokeFreedStale(t)
    \/ BridgeInvokeFreedTraps(t)
    \/ BridgeReturn(t)

\* Hosts install and uninstall while libvlc logs short messages; every
\* malloc returns a block.
AllocNext ==
    \/ \E h \in Hosts : InstallStep(h) \/ UninstallStep(h)
    \/ \E t \in Loggers, inst \in Instances, e \in ShortEvents : LogEmit(t, inst, e)
    \/ \E t \in Loggers : BridgeStep(t)

\* The same, and malloc may return NULL.
Next ==
    \/ AllocNext
    \/ \E h \in Hosts : AllocFailureStep(h)

Spec == Init /\ [][Next]_vars

\* A thread that has entered the bridge keeps running: the bridge takes no
\* lock and waits for nothing.
FairSpec == Init /\ [][AllocNext]_vars /\ \A t \in Loggers : WF_vars(BridgeStep(t))

\* swiftvlc_log_unset called with a handle it has been given before
MisuseStep(h) ==
    \/ \E hd \in StaleHandles : UnsetUnregisterStale(h, hd)
    \/ UnsetFreeAborts(h)

MisuseNext ==
    \/ AllocNext
    \/ \E h \in Hosts : MisuseStep(h)

\* Hosts that also pass a handle to unset a second time.
MisuseSpec == Init /\ [][MisuseNext]_vars

FormatNext ==
    \/ \E h \in Hosts : InstallStep(h)
    \/ \E t \in Loggers, inst \in Instances, e \in EventIds : LogEmit(t, inst, e)
    \/ \E t \in Loggers : BridgeFormat(t) \/ BridgeInvoke(t) \/ BridgeReturn(t)

\* Hosts install, libvlc logs every message of Events, at the boundary of
\* the buffer and beyond.
FormatSpec == Init /\ [][FormatNext]_vars

----------------------------------------------------------------------------
(* Properties *)

\* the complete formatted output of event e
Out(e) == Expand(Events[e].fmt, 1, Events[e].args, 1)

\* thread t has invoked the callback and not yet returned from the bridge
Invoked(t) == logger[t].pc = "br_return" /\ calls[t] # <<>>
TheCall(t) == calls[t][1]

\* the invocation the host expects for event e under the registration of
\* context c: the callback and userData given to the set call that made c
Expected(c, e) ==
    [callback |-> given[c].callback, data |-> given[c].data,
     level |-> Events[e].level, module |-> Events[e].module, message |-> Out(e)]

\* C1: once swiftvlc_log_set has registered an allocated context c, every
\* log event libvlc hands to the bridge for c ends in one invocation of the
\* callback given to that set call, with its userData, the event's level,
\* its module and the formatted message (or the process has died).
C1_EventInvokesCallback ==
    \A t \in Loggers, c \in Addrs, e \in ShortEvents :
        (logger[t].pc = "br_format" /\ logger[t].context = c /\ logger[t].ev = e)
        ~> (crashed \/ (logger[t].pc = "br_return" /\ logger[t].context = c
                          /\ calls[t] = <<Expected(c, e)>>))

C1_Witness ==
    \E t \in Loggers, c \in Addrs :
        /\ Invoked(t)
        /\ logger[t].context = c
        /\ reg[logger[t].instance] = Handler(c)
        /\ host = [h \in Hosts |-> IdleHost]
        /\ TheCall(t) = Expected(c, logger[t].ev)

\* C2: with a libvlc whose set/unset wait for the log calls in flight, the
\* callback is never invoked through a context whose swiftvlc_log_unset has
\* returned (free and return are one step: the context is freed).
C2_NoInvocationAfterUninstall ==
    libSync => \A t \in Loggers : Invoked(t) => ~Freed(logger[t].context)

C2_Witness ==
    /\ libSync
    /\ \E c \in Addrs : heap[c].state = "freed"
    /\ \E t \in Loggers : Invoked(t) /\ logger[t].context \in Addrs

\* C3: after malloc has returned NULL no handler is registered with a null
\* state pointer.
C3_NoRegistrationWithNullState ==
    \A i \in Instances : reg[i].installed => reg[i].data # NULL

\* the host holds the handle of context c: set returned it, unset has not got it
HandleHeld(c) == \E i \in Instances : <<i, c>> \in handles

\* C4 as stated: a context whose registration a second set replaced is never
\* freed afterwards.
C4_SupersededNeverFreed ==
    \A c \in superseded : heap[c].state # "freed"

\* C4, amended: a second set on the instance replaces the handler state by
\* the new context (libvlc no longer refers to the first context), and the
\* first context stays allocated for as long as its handle has not been
\* given to swiftvlc_log_unset.
C4_SupersededStaysUntilUninstalled ==
    \A c \in superseded :
        /\ \A i \in Instances : reg[i] # Handler(c)
        /\ HandleHeld(c) => heap[c].state = "live" /\ nfree[c] = 0

C4_Witness ==
    \E c \in superseded, d \in Addrs :
        /\ HandleHeld(c) /\ heap[c].state = "live"
        /\ d # c /\ HandleHeld(d)
        /\ \E i \in Instances : reg[i] = Handler(d)

\* every set call has returned and every handle has been given to an unset
\* call that has returned
Quiescent ==
    /\ ~crashed
    /\ host = [h \in Hosts |-> IdleHost]
    /\ handles = {}

\* C5: once every handle returned by set has gone through unset, no handler
\* is registered and every allocated context has been freed exactly once; no
\* set or unset call ever touches a freed context, and with a libvlc that
\* waits for the log calls in flight no bridge call does either.
C5_CyclesLeaveNothingBehind ==
    /\ Quiescent =>
           /\ \A i \in Instances : reg[i] = NoHandler
           /\ \A a \in Addrs : /\ heap[a].state # "live"
                               /\ nfree[a] = IF heap[a].state = "freed" THEN 1 ELSE 0
    /\ \A a \in Addrs : nfree[a] <= 1
    /\ "free" \notin badAccess
    /\ libSync => badAccess = {}

C5_Witness ==
    /\ Quiescent
    /\ libSync
    /\ nfailed = 0
    /\ Cardinality({a \in Addrs : heap[a].state = "freed" /\ nfree[a] = 1}) >= 2

\* a set call is still filling in context a
BeingInstalled(a) ==
    \E h \in Hosts : host[h].pc \in {"set_callback", "set_data"} /\ host[h].context = a

\* C6: a context comes into being in swiftvlc_log_set only, is released by
\* the free of swiftvlc_log_unset only, is not modified once its set call
\* has stored its two fields, and stays allocated while its handle has not
\* been given to unset.
C6_OnlyUnsetReleases ==
    [][\A a \in Addrs :
          /\ (heap[a].state = "unalloc" /\ heap'[a].state # "unalloc") =>
                 \E h \in Hosts : /\ host[h].pc = "idle"
                                  /\ host'[h].pc = "set_callback"
                                  /\ host'[h].context = a
          /\ (heap[a].state = "live" /\ heap'[a].state # "live") =>
                 \E h \in Hosts : /\ host[h].pc = "unset_free"
                                  /\ host[h].context = a
                                  /\ host'[h].pc = "idle"
          /\ (heap[a].state = "live" /\ ~BeingInstalled(a)) =>
                 /\ heap'[a].callback = heap[a].callback
                 /\ heap'[a].data = heap[a].data
          /\ (HandleHeld(a) /\ HandleHeld(a)') => heap'[a].state = "live"
      ]_vars

C6_Witness ==
    \E a \in Addrs, b \in Addrs, t \in Loggers :
        /\ HandleHeld(a) /\ heap[a].state = "live"
        /\ heap[b].state = "freed"
        /\ host = [h \in Hosts |-> IdleHost]
        /\ Invoked(t) /\ logger[t].context = a

\* what a message of event e looks like in a buffer of BufSize bytes
Delivered(e) == SubSeq(Out(e), 1, Min(Len(Out(e)), BufSize - 1))

\* C7: whatever the other threads do, an invocation carries the level, the
\* module and the formatted message of the event its own bridge call was
\* entered for.
C7_OwnEventDelivered ==
    \A t \in Loggers :
        Invoked(t) =>
            /\ TheCall(t).level = Events[logger[t].ev].level
            /\ TheCall(t).module = Events[logger[t].ev].module
            /\ TheCall(t).message = Delivered(logger[t].ev)

C7_Witness ==
    \E t \in Loggers, u \in Loggers :
        /\ t # u
        /\ Invoked(t) /\ Invoked(u)
        /\ logger[t].ev # logger[u].ev
        /\ TheCall(t).message # TheCall(u).message

\* C8: an output of more than BufSize - 1 bytes reaches the callback as its
\* first BufSize - 1 bytes, the terminator in the last cell of the buffer;
\* no bridge call stores anything behind the BufSize cells of its buffer.
C8_TruncatedToCapacity ==
    \A t \in Loggers :
        /\ Len(bufs[t]) <= BufSize
        /\ (Invoked(t) /\ Len(Out(logger[t].ev)) > BufSize - 1) =>
               /\ Len(TheCall(t).message) = BufSize - 1
               /\ TheCall(t).message = SubSeq(Out(logger[t].ev), 1, BufSize - 1)
               /\ bufs[BufOf(t)][BufSize] = NUL

C8_Witness ==
    \E t \in Loggers, u \in Loggers :
        /\ Invoked(t) /\ Len(Out(logger[t].ev)) = BufSize
        /\ Invoked(u) /\ Len(Out(logger[u].ev)) > BufSize
        /\ Len(TheCall(t).message) = BufSize - 1

\* C9: an output of at most BufSize - 1 bytes reaches the callback as the
\* string a formatter without a limit produces from the same format and
\* arguments.
C9_FittingMessageIsReference ==
    \A t \in Loggers :
        (Invoked(t) /\ Len(Out(logger[t].ev)) <= BufSize - 1) =>
            TheCall(t).message =
                CStr(Vsprintf(Events[logger[t].ev].fmt, Events[logger[t].ev].args))

C9_Witness ==
    \E t \in Loggers, u \in Loggers :
        /\ Invoked(t) /\ Len(Out(logger[t].ev)) = BufSize - 1
        /\ Len(TheCall(t).message) = BufSize - 1
        /\ Invoked(u) /\ TheCall(u).message = <<"a", "b", ":", "-", "4", "2", "%">>

\* C10: an invocation through an allocated context carries the userData
\* given to the set call that allocated the context; a null userData arrives
\* as null.
C10_UserDataPassedThrough ==
    \A t \in Loggers :
        (Invoked(t) /\ logger[t].context \in Addrs) =>
            TheCall(t).data = given[logger[t].context].data

C10_Witness ==
    \E t \in Loggers, u \in Loggers :
        /\ Invoked(t) /\ logger[t].context \in Addrs /\ TheCall(t).data = UdNull
        /\ Invoked(u) /\ logger[u].context \in Addrs /\ TheCall(u).data = "ud:1"

\* C11: the module name an invocation carries is the one the metadata of its
\* log record reports ("core" arrives as "core"); for a record without
\* module metadata the callback receives the null pointer, whether libvlc
\* stores a null or stores nothing, and never an uninitialised pointer.
C11_ModuleNameOrNull ==
    \A t \in Loggers :
        Invoked(t) =>
            /\ TheCall(t).module # Uninit
            /\ TheCall(t).module # Garbage
            /\ Events[logger[t].ev].module = NoModule => TheCall(t).module = NoModule
            /\ Events[logger[t].ev].module # NoModule =>
                   TheCall(t).module = Events[logger[t].ev].module

C11_Witness ==
    \E t \in Loggers, u \in Loggers :
        /\ Invoked(t) /\ Events[logger[t].ev].module = "core"
        /\ TheCall(t).module = "core"
        /\ Invoked(u) /\ Events[logger[u].ev].module = NoModule
        /\ TheCall(u).module = NoModule

\* C12: swiftvlc_log_unset does not wait for the bridge: once
\* libvlc_log_unset has returned, the free is enabled whatever the library
\* threads are doing. A thread about to read the fields of a context that
\* has been freed therefore exists, and only with a libvlc whose unset does
\* not wait for the log calls in flight.
C12_FreeNeverWaitsForBridge ==
    /\ \A h \in Hosts :
           (~crashed /\ host[h].pc = "unset_free") => ENABLED UnsetFree(h)
    /\ \A t \in Loggers :
           (logger[t].pc = "br_invoke" /\ Freed(logger[t].context)) => ~libSync

\* the context was freed while thread t was in the bridge, before its read
C12_Witness ==
    /\ ~libSync
    /\ ~crashed
    /\ \E t \in Loggers :
           /\ logger[t].pc = "br_invoke"
           /\ Freed(logger[t].context)
           /\ nfree[logger[t].context] = 1
           /\ reg[logger[t].instance] = NoHandler

\* C13: swiftvlc_log_unset calls libvlc_log_unset first and free second: a
\* call that stands before the free of an allocated context has already left
\* the instance without a handler for that context, and no freed context is
\* the data pointer of a registered handler. (The null pointer that set
\* returns after a failed malloc is no context: free(NULL) releases nothing.)
C13_UnregisteredBeforeFreed ==
    /\ \A h \in Hosts :
           (host[h].pc = "unset_free" /\ host[h].context \in Addrs) =>
               \A i \in Instances : reg[i] # Handler(host[h].context)
    /\ \A c \in Addrs :
           Freed(c) => \A i \in Instances : reg[i] # Handler(c)

\* between the two statements: unregistered, the context not yet freed
C13_Witness ==
    \E h \in Hosts :
        /\ host[h].pc = "unset_free"
        /\ host[h].context \in Addrs
        /\ heap[host[h].context].state = "live"
        /\ reg[host[h].instance] = NoHandler
        /\ \E c \in Addrs : Freed(c)

\* C14: swiftvlc_log_unset does not look at the handle it is given: a call
\* that arrives at line 56 with a context that is already freed never
\* returns without having freed it a second time.
C14_StaleHandleFreedAgain ==
    [][\A h \in Hosts :
          (/\ host[h].pc = "unset_free"
           /\ Freed(host[h].context)
           /\ host'[h].pc = "idle") =>
              /\ nfree'[host[h].context] = 2
              /\ "free" \in badAccess'
      ]_vars

\* a second unset with the same handle has returned: the context went
\* through free twice
C14_Witness ==
    /\ ~crashed
    /\ host = [h \in Hosts |-> IdleHost]
    /\ "free" \in badAccess
    /\ \E a \in Addrs : nfree[a] = 2 /\ heap[a].state = "freed"

\* a step of a library thread: entering the bridge, or one of its statements
LoggerStepTaken == logger' # logger \/ calls' # calls \/ bufs' # bufs

\* C15: a log event does nothing but invoke the callback once: no step of a
\* library thread changes a context (its fields, whether it is allocated),
\* the registration or what the hosts hold; line 38 adds one invocation, and
\* a bridge call has made none before it and exactly one after it.
C15_BridgeOnlyInvokesOnce ==
    [][/\ LoggerStepTaken =>
              /\ heap' = heap
              /\ nullpage' = nullpage
              /\ nfree' = nfree
              /\ reg' = reg
              /\ handles' = handles
              /\ host' = host
       /\ \A t \in Loggers :
              /\ (logger[t].pc = "br_invoke" /\ logger'[t].pc = "br_return") =>
                     Len(calls'[t]) = Len(calls[t]) + 1
              /\ logger'[t].pc = "br_return" => Len(calls'[t]) = 1
              /\ logger'[t].pc # "br_return" => calls'[t] = <<>>
      ]_vars

C15_Witness ==
    \E t \in Loggers, c \in Addrs :
        /\ Invoked(t) /\ Len(calls[t]) = 1
        /\ logger[t].context = c
        /\ heap[c] = [state |-> "live", callback |-> given[c].callback,
                                        data |-> given[c].data]
        /\ reg[logger[t].instance] = Handler(c)
        /\ HandleHeld(c)

\* C16: libvlc_log_unset takes the instance only: an unset call leaves the
\* instance without a handler whichever handle it was given, the handle of
\* a superseded context included; and libvlc enters the bridge only with
\* the context registered at that moment, so a context that is allocated
\* but not registered gets no further log event.
C16_UnsetClearsAnyHandler ==
    [][/\ \A h \in Hosts :
              (host[h].pc = "idle" /\ host'[h].pc = "unset_free") =>
                  reg'[host'[h].instance] = NoHandler
       /\ \A t \in Loggers :
              (logger[t].pc = "idle" /\ logger'[t].pc # "idle") =>
                  /\ reg[logger'[t].instance].installed
                  /\ logger'[t].context = reg[logger'[t].instance].data
      ]_vars

\* set A, set B, unset A have returned: no handler, B allocated, its handle
\* still held
C16_Witness ==
    \E a \in superseded, b \in Addrs :
        /\ a # b
        /\ heap[a].state = "freed"
        /\ heap[b].state = "live" /\ HandleHeld(b) /\ nfree[b] = 0
        /\ host = [h \in Hosts |-> IdleHost]
        /\ \A i \in Instances : reg[i] = NoHandler
        /\ \A t \in Loggers : logger[t].pc = "idle"
        /\ \A t \in Loggers, i \in Instances, e \in ShortEvents : ~ENABLED LogEmit(t, i, e)

\* C17: swiftvlc_log_set stores callback and data before it calls
\* libvlc_log_set: the context of a registered handler holds both values of
\* its set call, a thread inside the bridge finds both fields written, and
\* no invocation carries an unwritten callback or userData.
C17_FieldsWrittenBeforeRegistered ==
    /\ \A i \in Instances, c \in Addrs :
           reg[i] = Handler(c) =>
               /\ heap[c].callback = given[c].callback /\ heap[c].callback # Uninit
               /\ heap[c].data = given[c].data /\ heap[c].data # Uninit
    /\ \A t \in Loggers :
           logger[t].pc # "idle" =>
               /\ Block(logger[t].context).callback # Uninit
               /\ Block(logger[t].context).data # Uninit
    /\ \A t \in Loggers :
           \A k \in 1..Len(calls[t]) :
               calls[t][k].callback # Uninit /\ calls[t][k].data # Uninit

\* a thread is in the bridge for context a while a set call has written
\* only the first field of context b
C17_Witness ==
    \E t \in Loggers, h \in Hosts, a \in Addrs, b \in Addrs :
        /\ a # b
        /\ logger[t].pc = "br_invoke" /\ logger[t].context = a
        /\ heap[a].state = "live"
        /\ host[h].pc = "set_data" /\ host[h].context = b
        /\ heap[b].callback # Uninit /\ heap[b].data = Uninit
        /\ \A i \in Instances : reg[i] # Handler(b)

====
